---- MODULE Spec2Model ----
(***************************************************************************)
(* A model of the gedit "autoname" plugin (src/autoname/plugin.py).        *)
(*                                                                         *)
(* The plugin reacts to two window signals.  "tab-added" gives an untitled *)
(* document a generated location and requests an asynchronous save;       *)
(* "tab-removed" deletes the file of a document whose path the plugin's    *)
(* regular expression recognises and whose text is blank.  One persisted   *)
(* string, "new-file-dirpath", names the directory of generated files; the *)
(* settings panel writes it.                                               *)
(*                                                                         *)
(* Paths and the setting are sequences of one-character strings, so that   *)
(* os.path.join, str.format of the REGEX template and re.match are         *)
(* computed character by character as the code computes them.              *)
(***************************************************************************)
EXTENDS Integers, Sequences, FiniteSets, TLC

\* ------------------------------------------------------------------ bounds

\* Number of tabs the host opens in one run.
MaxDocs == 1

\* ------------------------------------------------------- program constants

\* \d{{8}} of REGEX, and the width of strftime("%Y%m%d").
DateLen == 8
\* \w{{6}} of REGEX, and the slice [-6:] of the uuid.
SuffixLen == 6
\* "if char_count < 100" of _is_empty.
EmptyScanLimit == 100

\* ------------------------------------------------------------- characters

None == <<>>

\* What \d accepts (the ASCII part of it).
Digit == {"0", "1", "2", "3", "4", "5", "6", "7", "8", "9"}

\* What \w accepts (the ASCII part of it): letters, digits, underscore.
Word ==
    Digit \cup {"_"} \cup
    {"a", "b", "c", "d", "e", "f", "g", "h", "i", "j", "k", "l", "m",
     "n", "o", "p", "q", "r", "s", "t", "u", "v", "w", "x", "y", "z"} \cup
    {"A", "B", "C", "D", "E", "F", "G", "H", "I", "J", "K", "L", "M",
     "N", "O", "P", "Q", "R", "S", "T", "U", "V", "W", "X", "Y", "Z"}

\* The literal "autoname-" of the file-name template and of REGEX.
Stem == <<"a", "u", "t", "o", "n", "a", "m", "e", "-">>

\* pathlib.Path.home()
Home == <<"/", "h">>

\* ------------------------------------------------------------------ inputs

TheDate == <<"2", "0", "2", "1", "0", "9", "1", "8">>
GoodSfx == <<"e", "f", "3", "5", "2", "a">>

\* Values of datetime.now().strftime("%Y%m%d").
Dates == {TheDate}

\* Values of str(uuid.uuid4())[-6:]: six hexadecimal digits.
Suffixes == {GoodSfx, <<"0", "0", "7", "b", "c", "d">>}

\* Values of chooser.get_filename(): a plain directory, one whose name holds
\* a ".", one whose name holds a "+", and the root directory.
DirPlain == <<"/", "a", "X", "b">>
DirDot == <<"/", "a", ".", "b">>
DirPlus == <<"/", "a", "+", "b">>
DirRoot == <<"/">>
Dirs == {DirPlain, DirDot, DirPlus, DirRoot}

\* "autoname-%s-%s" % (date, suffix)
AutonameFilename(date, sfx) == Stem \o date \o <<"-">> \o sfx

\* os.path.join(dirpath, name) for a relative name: no second separator
\* after a directory that already ends with one.
PathJoin(dirpath, name) ==
    IF dirpath # <<>> /\ dirpath[Len(dirpath)] = "/"
    THEN dirpath \o name
    ELSE dirpath \o <<"/">> \o name

\* Files the user opens from disk (documents that come with a location).
UserPaths ==
    { \* an ordinary file
      Home \o <<"/", "n", "o", "t", "e">>,
      \* a generated-looking name directly under the home directory
      PathJoin(Home, AutonameFilename(TheDate, <<"e", "f", "_", "5", "2", "A">>)),
      \* the same with a newline after the suffix
      PathJoin(Home, AutonameFilename(TheDate, GoodSfx)) \o <<"\n">>,
      \* five and seven characters after the last "-"
      PathJoin(Home, AutonameFilename(TheDate, <<"e", "f", "3", "5", "2">>)),
      PathJoin(Home, AutonameFilename(TheDate, GoodSfx \o <<"x">>)),
      \* a letter among the eight digits
      PathJoin(Home, AutonameFilename(<<"2", "0", "2", "1", "0", "9", "1", "x">>, GoodSfx)),
      \* one directory deeper than the home directory
      PathJoin(Home \o <<"/", "s">>, AutonameFilename(TheDate, GoodSfx)),
      \* under a directory that DirPlus matches as a pattern
      PathJoin(<<"/", "a", "a", "b">>, AutonameFilename(TheDate, GoodSfx)) }

\* Document texts: ws whitespace characters and ink other characters.
Contents ==
    { [ws |-> 0, ink |-> 0],
      [ws |-> EmptyScanLimit - 1, ink |-> 0],
      [ws |-> EmptyScanLimit, ink |-> 0],
      [ws |-> EmptyScanLimit - 2, ink |-> 1],
      [ws |-> EmptyScanLimit, ink |-> 1] }

Blank == [ws |-> 0, ink |-> 0]

DocIds == 1..MaxDocs

\* ------------------------------------------------------------------- state

VARIABLES
    setting,    \* the persisted string "new-file-dirpath"
    docs,       \* DocIds -> the host's document behind each tab
    fs,         \* the disk: path -> "file" | "protected", for the paths that exist
    last        \* what the handler that has just returned did

vars == <<setting, docs, fs, last>>

NoDoc ==
    [status |-> "absent", location |-> None, text |-> Blank, savePending |-> FALSE,
     namedDir |-> None, everInk |-> FALSE, dirChanged |-> FALSE]

Idle ==
    [op |-> "none", doc |-> 0, came |-> None, filepath |-> None, dir |-> None,
     autonamed |-> FALSE, empty |-> "NotCalled", attempted |-> FALSE, err |-> "none",
     raised |-> FALSE, logged |-> FALSE, kindBefore |-> "missing", count |-> 0,
     removed |-> {}, saveRequested |-> FALSE]

\* The kind of directory entry at a path.
Kind(disk, path) == IF path \in DOMAIN disk THEN disk[path] ELSE "missing"

\* The setting holds what an earlier session left in it: nothing (the
\* schema's default) or a directory chosen then.
Init ==
    /\ setting \in {<<>>} \cup Dirs
    /\ docs = [d \in DocIds |-> NoDoc]
    /\ fs = [p \in UserPaths |-> "file"]
    /\ last = Idle

\* ------------------------------------------------------ the plugin's helpers

\* _get_newfile_directory: the setting, or the home directory when it is empty.
GetNewfileDirectory(value) == IF value = <<>> THEN Home ELSE value

\* A compiled regular expression is a sequence of items: an atom ("lit" c,
\* "any" for ".", "digit" for \d, "word" for \w), repeated once or, with
\* plus, one or more times; or the end anchor "eol" for "$".
Item(kind, c, plus) == [k |-> kind, c |-> c, plus |-> plus]

Literal(chars) == [i \in 1..Len(chars) |-> Item("lit", chars[i], FALSE)]

Times(item, n) == [i \in 1..n |-> item]

\* How re compiles the characters that str.format puts in place of {dirpath}:
\* "." is any character but a newline, "+" repeats the atom before it, any
\* other character of the modelled directories stands for itself.
RECURSIVE CompileText(_)
CompileText(chars) ==
    IF chars = <<>> THEN <<>>
    ELSE LET plus == Len(chars) >= 2 /\ chars[2] = "+"
             kind == IF chars[1] = "." THEN "any" ELSE "lit"
             rest == SubSeq(chars, IF plus THEN 3 ELSE 2, Len(chars))
         IN  <<Item(kind, chars[1], plus)>> \o CompileText(rest)

\* REGEX.format(dirpath=...): r'^{dirpath}/autoname-\d{{8}}-\w{{6}}$'
Regex(dirpath) ==
    CompileText(dirpath)
        \o Literal(<<"/">> \o Stem)
        \o Times(Item("digit", "", FALSE), DateLen)
        \o Literal(<<"-">>)
        \o Times(Item("word", "", FALSE), SuffixLen)
        \o <<Item("eol", "", FALSE)>>

Accepts(item, c) ==
    CASE item.k = "lit" -> c = item.c
      [] item.k = "any" -> c # "\n"
      [] item.k = "digit" -> c \in Digit
      [] item.k = "word" -> c \in Word
      [] OTHER -> FALSE

\* re.match(regex, s): the items match a prefix of s from its start; "$"
\* holds at the end of s and before a newline that ends s.
RECURSIVE ReMatch(_, _)
ReMatch(items, s) ==
    IF items = <<>> THEN TRUE
    ELSE LET it == Head(items) IN
         IF it.k = "eol" THEN (s = <<>> \/ s = <<"\n">>) /\ ReMatch(Tail(items), s)
         ELSE IF it.plus
         THEN \E n \in 1..Len(s) :
                 /\ \A i \in 1..n : Accepts(it, s[i])
                 /\ ReMatch(Tail(items), SubSeq(s, n + 1, Len(s)))
         ELSE s # <<>> /\ Accepts(it, Head(s)) /\ ReMatch(Tail(items), Tail(s))

\* _is_autonamed(filepath), with the setting's current value.
IsAutonamed(filepath, value) == ReMatch(Regex(GetNewfileDirectory(value)), filepath)

\* document.get_char_count()
CharCount(text) == text.ws + text.ink

\* bool(text.strip()): something is left once the whitespace is stripped.
StripsToSomething(text) == text.ink > 0

\* _is_empty without the character-count test: blank text of any length.
IsEmptyAnyLength(text) == IF StripsToSomething(text) THEN "False" ELSE "True"

\* _is_empty(document): "True", "False", or "None" when the function falls
\* off its end without a return.
IsEmpty(text) ==
    IF CharCount(text) < EmptyScanLimit
    THEN IF StripsToSomething(text) THEN "False" ELSE "True"
    ELSE "None"

\* Python's truth value of what _is_empty returns.
Truthy(v) == v = "True"

\* _tab_added without the is_untitled test: every document is renamed.
IsUntitledAlways(doc) == TRUE

\* document.is_untitled()
IsUntitled(doc) == doc.location = None

\* _autoname_document: the path given to the document.
AutonamePath(value, date, sfx) ==
    PathJoin(GetNewfileDirectory(value), AutonameFilename(date, sfx))

\* os.remove(path): the disk afterwards and the error raised.
OsRemove(disk, path) ==
    CASE Kind(disk, path) = "missing" ->
            [disk |-> disk, err |-> "FileNotFoundError"]
      [] Kind(disk, path) = "protected" ->
            [disk |-> disk, err |-> "PermissionError"]
      [] OTHER ->
            [disk |-> [p \in DOMAIN disk \ {path} |-> disk[p]], err |-> "none"]

\* The close handler without its "except" clause.
CaughtNothing(err) == FALSE

\* "except FileNotFoundError": the errors the close handler catches.
Caught(err) == err = "FileNotFoundError"

\* The condition of the close handler's "if".
ShouldDelete(filepath, value, text) ==
    /\ filepath # None
    /\ IsAutonamed(filepath, value)
    /\ Truthy(IsEmpty(text))

\* ------------------------------------------------------------------ actions

Located == {docs[d].location : d \in {e \in DocIds : docs[e].status # "absent"}}

\* The host adds a tab and emits "tab-added": _tab_added.  The document is
\* new and untitled (from == None), or a file opened from disk.  A generated
\* path is one no open tab has: the uuid differs from call to call.
TabAdded(d, from, text, date, sfx) ==
    /\ docs[d].status = "absent"
    /\ from \notin Located
    /\ from = None => text = Blank
    /\ LET doc == [NoDoc EXCEPT !.status = "open", !.location = from, !.text = text,
                                !.everInk = text.ink > 0]
           path == AutonamePath(setting, date, sfx)
           named == IsUntitled(doc)
           after == IF named
                    THEN [doc EXCEPT !.location = path, !.savePending = TRUE,
                                     !.namedDir = GetNewfileDirectory(setting)]
                    ELSE doc
       IN  /\ named => path \notin Located
           /\ docs' = [docs EXCEPT ![d] = after]
           /\ last' = [Idle EXCEPT !.op = "tab_added", !.doc = d, !.came = from,
                                   !.filepath = after.location,
                                   !.dir = GetNewfileDirectory(setting),
                                   !.saveRequested = named]
    /\ UNCHANGED <<setting, fs>>

\* The host removes a tab and emits "tab-removed": _tab_removed.
TabRemoved(d) ==
    /\ docs[d].status = "open"
    /\ LET filepath == docs[d].location
           go == ShouldDelete(filepath, setting, docs[d].text)
           rm == IF go THEN OsRemove(fs, filepath) ELSE [disk |-> fs, err |-> "none"]
           matched == filepath # None /\ IsAutonamed(filepath, setting)
       IN  /\ fs' = rm.disk
           /\ docs' = [docs EXCEPT ![d].status = "closed"]
           /\ last' = [Idle EXCEPT
                         !.op = "tab_removed", !.doc = d, !.filepath = filepath,
                         !.dir = GetNewfileDirectory(setting),
                         !.autonamed = matched,
                         !.empty = IF matched THEN IsEmpty(docs[d].text) ELSE "NotCalled",
                         !.attempted = go,
                         !.err = rm.err,
                         !.raised = rm.err # "none" /\ ~Caught(rm.err),
                         !.logged = rm.err # "none" /\ Caught(rm.err),
                         !.kindBefore = Kind(fs, filepath),
                         !.count = CharCount(docs[d].text),
                         !.removed = DOMAIN fs \ DOMAIN rm.disk]
    /\ UNCHANGED setting

\* The user picks a folder in the settings panel: _directory_selected.
DirectorySelected(dirpath) ==
    /\ setting' = dirpath
    /\ docs' = [d \in DocIds |->
                  IF docs[d].status = "open" /\ docs[d].namedDir # None /\ dirpath # setting
                  THEN [docs[d] EXCEPT !.dirChanged = TRUE]
                  ELSE docs[d]]
    /\ last' = [Idle EXCEPT !.op = "directory_selected", !.dir = dirpath]
    /\ UNCHANGED fs

\* The user types in an open document.
Edit(d, text) ==
    /\ docs[d].status = "open"
    /\ text # docs[d].text
    /\ docs' = [docs EXCEPT ![d].text = text,
                            ![d].everInk = docs[d].everInk \/ text.ink > 0]
    /\ last' = Idle
    /\ UNCHANGED <<setting, fs>>

\* The save requested by _tab_added writes the file, whenever the host gets
\* to it: before or after the tab is removed.
SaveCompletes(d) ==
    /\ docs[d].savePending
    /\ docs' = [docs EXCEPT ![d].savePending = FALSE]
    /\ fs' = IF Kind(fs, docs[d].location) = "missing"
             THEN [p \in DOMAIN fs \cup {docs[d].location} |->
                      IF p = docs[d].location THEN "file" ELSE fs[p]]
             ELSE fs
    /\ last' = Idle
    /\ UNCHANGED setting

\* The requested save fails (the directory does not exist or is not writable).
SaveFails(d) ==
    /\ docs[d].savePending
    /\ docs' = [docs EXCEPT ![d].savePending = FALSE]
    /\ last' = Idle
    /\ UNCHANGED <<setting, fs>>

\* Something else removes the file of a document.
ExternalRemove(d) ==
    /\ docs[d].status = "open"
    /\ Kind(fs, docs[d].location) # "missing"
    /\ fs' = [p \in DOMAIN fs \ {docs[d].location} |-> fs[p]]
    /\ last' = Idle
    /\ UNCHANGED <<setting, docs>>

\* The file of a document becomes one the process may not remove.
ExternalProtect(d) ==
    /\ docs[d].status = "open"
    /\ Kind(fs, docs[d].location) = "file"
    /\ fs' = [fs EXCEPT ![docs[d].location] = "protected"]
    /\ last' = Idle
    /\ UNCHANGED <<setting, docs>>

Next ==
    \/ \E d \in DocIds, from \in {None} \cup UserPaths, text \in Contents,
          date \in Dates, sfx \in Suffixes : TabAdded(d, from, text, date, sfx)
    \/ \E d \in DocIds : TabRemoved(d)
    \/ \E dirpath \in Dirs : DirectorySelected(dirpath)
    \/ \E d \in DocIds, text \in Contents : Edit(d, text)
    \/ \E d \in DocIds : SaveCompletes(d)
    \/ \E d \in DocIds : SaveFails(d)
    \/ \E d \in DocIds : ExternalRemove(d)
    \/ \E d \in DocIds : ExternalProtect(d)

Spec == Init /\ [][Next]_vars


\* ------------------------------------------------ what the claims speak of

\* The index of the last "/" of a path (0 when it has none).
LastSlash(path) ==
    LET at == {i \in 1..Len(path) : path[i] = "/"}
    IN  IF at = {} THEN 0 ELSE CHOOSE i \in at : \A j \in at : j <= i

\* The directory a path lies directly in, and its file name.
ParentDir(path) == IF LastSlash(path) <= 1 THEN SubSeq(path, 1, LastSlash(path))
                   ELSE SubSeq(path, 1, LastSlash(path) - 1)
FileName(path) == SubSeq(path, LastSlash(path) + 1, Len(path))

\* "autoname-", eight digits, "-", six word characters, and nothing else.
WellNamed(name) ==
    /\ Len(name) = 24
    /\ SubSeq(name, 1, 9) = <<"a", "u", "t", "o", "n", "a", "m", "e", "-">>
    /\ \A i \in 10..17 : name[i] \in Digit
    /\ name[18] = "-"
    /\ \A i \in 19..24 : name[i] \in Word

\* A path of the auto-name shape directly under directory dir.
AutonamedUnder(path, dir) == ParentDir(path) = dir /\ WellNamed(FileName(path))

\* The text of the document the last handler ran for.
LastText == docs[last.doc].text

LastBlank == LastText.ws + LastText.ink < 100 /\ LastText.ink = 0

\* ------------------------------------------------------------------ claims

\* C1: after the creation handler has run for an untitled document, the
\* document's location is <dir>/autoname-<8 digits>-<6 word characters> for
\* the directory configured at that moment, and is_autonamed accepts it,
\* whatever directory changes came before.
C1_CreatedPathIsRecognised ==
    (last.op = "tab_added" /\ last.came = None) =>
        /\ docs[last.doc].location = last.filepath
        /\ AutonamedUnder(last.filepath, GetNewfileDirectory(setting))
        /\ IsAutonamed(last.filepath, setting)

\* C2: when the close handler has run for a document whose path is
\* auto-named under the configured directory, whose text is blank (fewer
\* than 100 characters, all whitespace) and whose file existed, the file no
\* longer exists.  Stated for a file the process may remove, so that what
\* refutes it is the handler and not the disk.
C2_BlankAutonamedFileIsGone ==
    (/\ last.op = "tab_removed"
     /\ last.filepath # None
     /\ AutonamedUnder(last.filepath, last.dir)
     /\ LastBlank
     /\ last.kindBefore = "file") =>
        Kind(fs, last.filepath) = "missing"

\* C3: the close handler attempts a deletion only for a document that has a
\* path, auto-named under the configured directory, and blank text; a
\* document that is not all three keeps its file; and no path but the
\* document's own is ever removed.
C3_DeletesOnlyBlankAutonamed ==
    last.op = "tab_removed" =>
        /\ last.attempted =>
              /\ last.filepath # None
              /\ AutonamedUnder(last.filepath, last.dir)
              /\ LastBlank
        /\ ~(last.filepath # None /\ AutonamedUnder(last.filepath, last.dir) /\ LastBlank)
              => Kind(fs, last.filepath) = last.kindBefore
        /\ last.removed \subseteq {last.filepath}

\* C4: is_autonamed(path) is true exactly when the path's parent directory
\* is the configured directory and its file name is "autoname-", 8 digits,
\* "-", 6 word characters, with nothing before or after.
C4_RecognisesExactlyTheShape ==
    (last.op = "tab_removed" /\ last.filepath # None) =>
        (last.autonamed <=> AutonamedUnder(last.filepath, last.dir))

C6_OtherFailureIsLoggedNotRaised ==
    (/\ last.op = "tab_removed"
     /\ last.attempted
     /\ last.err \notin {"none", "FileNotFoundError"}) =>
        (last.logged /\ ~last.raised)

\* C7: when the close handler tries to delete a file that is already gone,
\* the error is caught and logged, nothing is raised, and the disk and the
\* setting are as they were.
C7_MissingFileIsCaught ==
    [][(/\ last'.op = "tab_removed"
        /\ last'.attempted
        /\ last'.kindBefore = "missing") =>
           /\ last'.err = "FileNotFoundError"
           /\ last'.logged
           /\ ~last'.raised
           /\ fs' = fs
           /\ setting' = setting]_vars

\* The close handler has tried to delete a blank auto-named document whose
\* file was gone.
C7_Witness ==
    /\ last.op = "tab_removed"
    /\ last.attempted
    /\ last.kindBefore = "missing"
    /\ last.err = "FileNotFoundError"

\* C8: a document auto-named under directory A, closed while the configured
\* directory is another one, is not recognised as auto-named and its file
\* is not deleted.
C8_OldDirectoryNotRecognised ==
    (/\ last.op = "tab_removed"
     /\ docs[last.doc].namedDir # None
     /\ docs[last.doc].namedDir # last.dir) =>
        /\ ~last.autonamed
        /\ ~last.attempted
        /\ last.removed = {}

\* C9: the creation handler leaves a document that came with a location as
\* it is: same location, no save requested, the disk and the setting as
\* they were.
C9_TitledDocumentUntouched ==
    [][(last'.op = "tab_added" /\ last'.came # None) =>
           /\ docs'[last'.doc].location = last'.came
           /\ ~docs'[last'.doc].savePending
           /\ ~last'.saveRequested
           /\ docs'[last'.doc].namedDir = None
           /\ fs' = fs
           /\ setting' = setting]_vars

\* The creation handler has run for a file opened from disk.
C9_Witness ==
    /\ last.op = "tab_added"
    /\ last.came \in UserPaths
    /\ docs[last.doc].location = last.came

\* C10: once an auto-named document that never held a character other than
\* whitespace has been closed, the directory setting unchanged since it was
\* named, and its pending save has finished, no file is left at its path.
C10_NoFileLeftAfterCloseAndSave ==
    \A d \in DocIds :
       (/\ docs[d].status = "closed"
        /\ docs[d].namedDir # None
        /\ ~docs[d].dirChanged
        /\ ~docs[d].everInk
        /\ CharCount(docs[d].text) < 100
        /\ ~docs[d].savePending) =>
           Kind(fs, docs[d].location) = "missing"

====
